---- MODULE Spec2Model ----
(***************************************************************************)
(* A model of @trackit/di-container: typed tokens, register, inject and    *)
(* reset over the process-wide tsyringe container.                         *)
(*                                                                         *)
(* JavaScript values are records tagged by the field t, so that any two    *)
(* of them can be compared:                                                *)
(*   undefined, null, a pre-built instance handed in by the caller         *)
(*   ("value"), a class, a function, an object allocated by running a      *)
(*   constructor or a factory ("object", with its allocation number), a    *)
(*   symbol, and the closure instanceCachingFactory returns.               *)
(***************************************************************************)
EXTENDS Naturals, Sequences, FiniteSets, TLC

\* tokens:   the tokens created at module load, by allocation number
\* registry: the container's registry, from symbols to registrations
\* nextId:   the allocation number of the next object created
\* last:     the last call made, how it ended, and whether it registered
\*           the token's default provider
\* firstReg: per symbol, the provider of the first register call that
\*           returned without throwing since the last reset
\* runs:     per symbol, the constructor and factory runs since the last reset
\* rets:     per symbol, the values inject returned since the last reset
VARIABLES tokens, registry, nextId, last, firstReg, runs, rets

vars == <<tokens, registry, nextId, last, firstReg, runs, rets>>

\* ------------------------------------------------------------ bounds
\* Objects the constructors and factories may allocate in one behaviour.
MaxObjects == 2
\* Constructor or factory runs counted per token between two resets.
MaxRuns == 2

\* ------------------------------------------------------------ values
Undefined == [t |-> "undefined"]
Null == [t |-> "null"]
Value(n) == [t |-> "value", name |-> n]
Class(n) == [t |-> "class", name |-> n]
Function(n) == [t |-> "function", name |-> n]
\* The function () => inject(tokens[i]).
Injector(i) == [t |-> "function", name |-> "inject", token |-> i]
isInjector(f) == "token" \in DOMAIN f
Object(src, id) == [t |-> "object", src |-> src, id |-> id]
Symbol(description, id) == [t |-> "symbol", description |-> description, id |-> id]

\* ------------------------------------------------------------ Provider
ValueProvider(v) == [useClass |-> Undefined, useValue |-> v, useFactory |-> Undefined]
FactoryProvider(f) == [useClass |-> Undefined, useValue |-> Undefined, useFactory |-> f]
ClassProvider(c) == [useClass |-> c, useValue |-> Undefined, useFactory |-> Undefined]

isValueProvider(provider) == provider.useValue # Undefined
isFactoryProvider(provider) == provider.useFactory # Undefined
isClassProvider(provider) == provider.useClass # Undefined

\* ------------------------------------------------------------ Token
\* new Token(name, defaultProvider): Symbol(name) is a fresh symbol, told
\* apart from every other one by its allocation number id.
\* Token with the symbol looked up by name, as Symbol.for(name) would.
Token_ByName(name, id, defaultProvider) ==
    [symbol |-> Symbol(name, 1), defaultProvider |-> defaultProvider]

Token(name, id, defaultProvider) ==
    [symbol |-> Symbol(name, id), defaultProvider |-> defaultProvider]

createInjectionToken(name, id, defaultProvider) == Token(name, id, defaultProvider)

\* The providers the callers hand to register.
Providers ==
    { ValueProvider(Value("V1")), ValueProvider(Undefined), ValueProvider(Null),
      ClassProvider(Class("C1")),
      FactoryProvider(Function("F1")), FactoryProvider(Injector(1)) }

\* The default providers the tokens are created with (Undefined: none).
DefaultProviders ==
    { Undefined, ValueProvider(Value("V0")), ValueProvider(Undefined),
      ClassProvider(Class("C0")), FactoryProvider(Function("F0")) }

\* Two tokens are created when the modules load, both with the same name.
TokenIds == {1, 2}
TokenName == "Svc"
Symbols == { Symbol(TokenName, i) : i \in TokenIds }

\* What one run of a constructor or a factory may do: hand back a new
\* object, hand back undefined (a factory only), or throw.
Outcomes == {"object", "undefined", "throw"}

\* ------------------------------------------------------------ tsyringe
\* The container: a registry from token symbols to the list of their
\* registrations, the last of which is the one resolve uses.
tsIsClassProvider(provider) == provider.useClass \notin {Undefined, Null}
tsIsValueProvider(provider) == provider.useValue \notin {Undefined, Null}
tsIsFactoryProvider(provider) == provider.useFactory \notin {Undefined, Null}
tsIsProvider(provider) ==
    tsIsClassProvider(provider) \/ tsIsValueProvider(provider) \/ tsIsFactoryProvider(provider)

isRegistered(reg, symbol) == Len(reg[symbol]) > 0

\* The closure instanceCachingFactory(factoryFunc) returns, with the
\* variable `instance` it closes over.
instanceCachingFactory(factoryFunc) ==
    [t |-> "cachingFactory", factoryFunc |-> factoryFunc, instance |-> Undefined]

\* container.register(symbol, provider, {lifecycle}): what is not a
\* provider by tsyringe's own tests is taken for a constructor.
containerRegister(reg, symbol, provider, lifecycle) ==
    LET p == IF tsIsProvider(provider) THEN provider ELSE ClassProvider(provider)
    IN  IF lifecycle = "Singleton" /\ (tsIsValueProvider(p) \/ tsIsFactoryProvider(p))
        THEN [registry |-> reg, error |-> "LifecycleError"]
        ELSE [registry |-> [reg EXCEPT ![symbol] =
                               Append(@, [provider |-> p, lifecycle |-> lifecycle,
                                          instance |-> Undefined])],
              error |-> "none"]

containerReset(reg) == [s \in DOMAIN reg |-> <<>>]

\* Whether x can be called with new.
isConstructor(x) == DOMAIN x = {"t", "name"} /\ x.t = "class"

RECURSIVE inject(_, _, _, _)

\* One run of the user's code, inside the resolution of `symbol`:
\* new ctor() or factoryFunc(). A factory that calls inject makes a nested
\* call, named in `nested` with its outcome, and hands back what it returns;
\* it has no try/catch, so the error of the nested call leaves it as it
\* is, unresolved-token and TypeInfo errors included. When it injects the
\* token that is being resolved, the calls nest until the call stack
\* overflows and the RangeError unwinds them all; how often the factory is
\* entered before that depends on the stack, and the run is counted once.
Run(reg, symbol, callee, out, nid) ==
    IF callee.t = "function" /\ isInjector(callee)
    THEN IF tokens[callee.token].symbol = symbol
         THEN [registry |-> reg, error |-> "RangeError", value |-> Undefined,
               nextId |-> nid, nested |-> {}]
         ELSE LET r == inject(reg, nid, tokens[callee.token], out)
              IN  [registry |-> r.registry,
                   error |-> r.error,
                   value |-> r.value, nextId |-> r.nextId,
                   nested |-> r.nested \cup
                       {[symbol |-> tokens[callee.token].symbol, ran |-> r.ran,
                         error |-> r.error, value |-> r.value, auto |-> r.auto]}]
    ELSE IF out = "throw"
    THEN [registry |-> reg, error |-> "Thrown", value |-> Undefined, nextId |-> nid,
          nested |-> {}]
    ELSE IF callee.t = "class" \/ out = "object"
    THEN [registry |-> reg, error |-> "none", value |-> Object(callee.name, nid),
          nextId |-> nid + 1, nested |-> {}]
    ELSE [registry |-> reg, error |-> "none", value |-> Undefined, nextId |-> nid,
          nested |-> {}]

\* container.resolve(symbol): the outcome, the registry and the allocation
\* counter after it, whether the user's code was run, and the nested
\* inject calls that code made.
containerResolve(reg, nid, symbol, out) ==
    IF ~isRegistered(reg, symbol)
    THEN [registry |-> reg, nextId |-> nid, error |-> "UnregisteredToken",
          value |-> Undefined, ran |-> FALSE, nested |-> {}]
    ELSE
    LET n == Len(reg[symbol])
        registration == reg[symbol][n]
        provider == registration.provider
        keep(v) == [registry |-> reg, nextId |-> nid, error |-> "none",
                    value |-> v, ran |-> FALSE, nested |-> {}]
    IN  IF tsIsValueProvider(provider) THEN keep(provider.useValue)
        ELSE IF tsIsClassProvider(provider) THEN
            IF registration.lifecycle = "Singleton" /\ registration.instance # Undefined
            THEN keep(registration.instance)
            ELSE IF ~isConstructor(provider.useClass)
            THEN [registry |-> reg, nextId |-> nid, error |-> "TypeInfoNotKnown",
                  value |-> Undefined, ran |-> FALSE, nested |-> {}]
            ELSE LET r == Run(reg, symbol, provider.useClass, out, nid)
                 IN  [registry |->
                          IF r.error = "none" /\ registration.lifecycle = "Singleton"
                          THEN [r.registry EXCEPT ![symbol][n].instance = r.value]
                          ELSE r.registry,
                      nextId |-> r.nextId, error |-> r.error, value |-> r.value,
                      ran |-> TRUE, nested |-> r.nested]
        ELSE \* a factory provider: useFactory is called on every resolve
            LET f == provider.useFactory
            IN  IF f.t = "cachingFactory" /\ f.instance \notin {Undefined, Null}
                THEN keep(f.instance)
                ELSE LET r == Run(reg, symbol,
                                  IF f.t = "cachingFactory" THEN f.factoryFunc ELSE f,
                                  out, nid)
                     IN  [registry |->
                              IF r.error = "none" /\ f.t = "cachingFactory"
                              THEN [r.registry EXCEPT
                                        ![symbol][n].provider.useFactory.instance = r.value]
                              ELSE r.registry,
                          nextId |-> r.nextId, error |-> r.error, value |-> r.value,
                          ran |-> TRUE, nested |-> r.nested]

\* ------------------------------------------------------------ register
\* register with the class registered without the Singleton lifecycle.
register_Transient(reg, token, provider) ==
    IF isRegistered(reg, token.symbol)
    THEN [registry |-> reg, error |-> "AlreadyRegistered"]
    ELSE IF isClassProvider(provider) \/ isValueProvider(provider)
    THEN containerRegister(reg, token.symbol, provider, "Transient")
    ELSE IF isFactoryProvider(provider)
    THEN containerRegister(reg, token.symbol,
             FactoryProvider(instanceCachingFactory(provider.useFactory)), "Transient")
    ELSE [registry |-> reg, error |-> "none"]

\* register without the test for an existing registration.
register_Unchecked(reg, token, provider) ==
    IF isClassProvider(provider)
    THEN containerRegister(reg, token.symbol, provider, "Singleton")
    ELSE IF isValueProvider(provider)
    THEN containerRegister(reg, token.symbol, provider, "Transient")
    ELSE IF isFactoryProvider(provider)
    THEN containerRegister(reg, token.symbol,
             FactoryProvider(instanceCachingFactory(provider.useFactory)), "Transient")
    ELSE [registry |-> reg, error |-> "none"]

\* register with the factory handed to the container as it is, not
\* wrapped by instanceCachingFactory.
register_Uncached(reg, token, provider) ==
    IF isRegistered(reg, token.symbol)
    THEN [registry |-> reg, error |-> "AlreadyRegistered"]
    ELSE IF isClassProvider(provider)
    THEN containerRegister(reg, token.symbol, provider, "Singleton")
    ELSE IF isValueProvider(provider) \/ isFactoryProvider(provider)
    THEN containerRegister(reg, token.symbol, provider, "Transient")
    ELSE [registry |-> reg, error |-> "none"]

\* register that constructs the instance at once and stores it.
register_Eager(reg, token, provider) ==
    IF isRegistered(reg, token.symbol)
    THEN [registry |-> reg, error |-> "AlreadyRegistered"]
    ELSE IF isClassProvider(provider)
    THEN [registry |->
              [reg EXCEPT ![token.symbol] =
                   <<[provider |-> provider, lifecycle |-> "Singleton",
                      instance |-> Object(provider.useClass.name, 0)]>>],
          error |-> "none"]
    ELSE IF isValueProvider(provider)
    THEN containerRegister(reg, token.symbol, provider, "Transient")
    ELSE IF isFactoryProvider(provider)
    THEN containerRegister(reg, token.symbol,
             FactoryProvider([instanceCachingFactory(provider.useFactory)
                                  EXCEPT !.instance = Object(provider.useFactory.name, 0)]),
             "Transient")
    ELSE [registry |-> reg, error |-> "none"]

register(reg, token, provider) ==
    IF isRegistered(reg, token.symbol)
    THEN [registry |-> reg, error |-> "AlreadyRegistered"]
    ELSE IF isClassProvider(provider)
    THEN containerRegister(reg, token.symbol, provider, "Singleton")
    ELSE IF isValueProvider(provider)
    THEN containerRegister(reg, token.symbol, provider, "Transient")
    ELSE IF isFactoryProvider(provider)
    THEN containerRegister(reg, token.symbol,
             FactoryProvider(instanceCachingFactory(provider.useFactory)), "Transient")
    ELSE [registry |-> reg, error |-> "none"]

\* ------------------------------------------------------------ inject
\* inject that catches what the constructor or factory throws and returns
\* undefined.
inject_Swallows(reg, nid, token, out) ==
    LET auto == ~isRegistered(reg, token.symbol) /\ token.defaultProvider # Undefined
        g == IF auto THEN register(reg, token, token.defaultProvider)
             ELSE [registry |-> reg, error |-> "none"]
        r == IF g.error # "none"
             THEN [registry |-> g.registry, nextId |-> nid, error |-> g.error,
                   value |-> Undefined, ran |-> FALSE, nested |-> {}, auto |-> auto]
             ELSE [auto |-> auto] @@ containerResolve(g.registry, nid, token.symbol, out)
    IN  IF r.error = "Thrown" THEN [r EXCEPT !.error = "none"] ELSE r

\* inject that drops the registrations of every other token.
inject_DropsOthers(reg, nid, token, out) ==
    LET auto == ~isRegistered(reg, token.symbol) /\ token.defaultProvider # Undefined
        g == IF auto THEN register(reg, token, token.defaultProvider)
             ELSE [registry |-> reg, error |-> "none"]
        r == IF g.error # "none"
             THEN [registry |-> g.registry, nextId |-> nid, error |-> g.error,
                   value |-> Undefined, ran |-> FALSE, nested |-> {}, auto |-> auto]
             ELSE [auto |-> auto] @@ containerResolve(g.registry, nid, token.symbol, out)
    IN  [r EXCEPT !.registry =
             [s \in DOMAIN @ |-> IF s = token.symbol THEN @[s] ELSE <<>>]]

inject(reg, nid, token, out) ==
    LET auto == ~isRegistered(reg, token.symbol) /\ token.defaultProvider # Undefined
        r == IF auto THEN register(reg, token, token.defaultProvider)
             ELSE [registry |-> reg, error |-> "none"]
    IN  IF r.error # "none"
        THEN [registry |-> r.registry, nextId |-> nid, error |-> r.error,
              value |-> Undefined, ran |-> FALSE, nested |-> {}, auto |-> auto]
        ELSE [auto |-> auto] @@ containerResolve(r.registry, nid, token.symbol, out)

\* ------------------------------------------------------------ reset
\* reset that leaves the container as it is.
reset_Keeps(reg) == reg

reset(reg) == containerReset(reg)

\* ------------------------------------------------------------ the program
Call(op, i, error, auto) == [op |-> op, token |-> i, error |-> error, auto |-> auto]

\* The second token has no default provider; the first has any.
Init ==
    /\ tokens \in { [i \in TokenIds |->
                         createInjectionToken(TokenName, i, IF i = 1 THEN d ELSE Undefined)] :
                       d \in DefaultProviders }
    /\ registry = [s \in Symbols |-> <<>>]
    /\ nextId = 1
    /\ last = Call("none", 0, "none", FALSE)
    /\ firstReg = [s \in Symbols |-> Undefined]
    /\ runs = [s \in Symbols |-> 0]
    /\ rets = [s \in Symbols |-> {}]

\* A call register(tokens[i], provider).
Register(i, provider) ==
    LET token == tokens[i]
        r == register(registry, token, provider)
    IN  /\ registry' = r.registry
        /\ last' = Call("register", i, r.error, FALSE)
        /\ firstReg' = IF r.error = "none" /\ firstReg[token.symbol] = Undefined
                       THEN [firstReg EXCEPT ![token.symbol] = provider]
                       ELSE firstReg
        /\ UNCHANGED <<tokens, nextId, runs, rets>>

\* The calls of inject one call inject(token) is made of: the call itself
\* and the nested calls of the factories it runs.
Calls(token, r) ==
    r.nested \cup {[symbol |-> token.symbol, ran |-> r.ran, error |-> r.error,
                    value |-> r.value, auto |-> r.auto]}

\* The default provider of the token whose symbol is s.
DefaultProviderOf(s) ==
    tokens[CHOOSE i \in TokenIds : tokens[i].symbol = s].defaultProvider

\* A call inject(tokens[i]); out is what the constructor or factory does
\* if the call runs it.
Inject(i, out) ==
    LET token == tokens[i]
        r == inject(registry, nextId, token, out)
        calls == Calls(token, r)
        ran(s) == \E c \in calls : c.symbol = s /\ c.ran
    IN  /\ r.nextId <= MaxObjects + 1
        /\ \A s \in Symbols : ran(s) => runs[s] < MaxRuns
        /\ registry' = r.registry
        /\ nextId' = r.nextId
        /\ last' = Call("inject", i, r.error, r.auto)
        /\ firstReg' = [s \in Symbols |->
               IF firstReg[s] = Undefined
                  /\ \E c \in calls : c.symbol = s /\ c.auto /\ c.error # "AlreadyRegistered"
               THEN DefaultProviderOf(s)
               ELSE firstReg[s]]
        /\ runs' = [s \in Symbols |-> IF ran(s) THEN runs[s] + 1 ELSE runs[s]]
        /\ rets' = [s \in Symbols |->
               rets[s] \cup {c.value : c \in {d \in calls : d.symbol = s /\ d.error = "none"}}]
        /\ UNCHANGED tokens

\* A call reset().
Reset ==
    /\ registry' = reset(registry)
    /\ last' = Call("reset", 0, "none", FALSE)
    /\ firstReg' = [s \in Symbols |-> Undefined]
    /\ runs' = [s \in Symbols |-> 0]
    /\ rets' = [s \in Symbols |-> {}]
    /\ UNCHANGED <<tokens, nextId>>

Next ==
    \/ \E i \in TokenIds, provider \in Providers : Register(i, provider)
    \/ \E i \in TokenIds, out \in Outcomes : Inject(i, out)
    \/ Reset

Spec == Init /\ [][Next]_vars

\* ------------------------------------------------------------ properties
Sym(i) == tokens[i].symbol

\* The registration resolve uses for token i.
Registration(i) == registry[Sym(i)][Len(registry[Sym(i)])]

Bound(i) == isRegistered(registry, Sym(i))

\* Token i is bound to a class provider.
ClassBound(i) == Bound(i) /\ isConstructor(Registration(i).provider.useClass)

\* Token i is bound to a factory provider.
FactoryBound(i) == Bound(i) /\ tsIsFactoryProvider(Registration(i).provider)

\* The provider register was given for the registration r.
Binding(r) ==
    IF tsIsFactoryProvider(r.provider) /\ r.provider.useFactory.t = "cachingFactory"
    THEN FactoryProvider(r.provider.useFactory.factoryFunc)
    ELSE IF tsIsClassProvider(r.provider) /\ ~isConstructor(r.provider.useClass)
    THEN r.provider.useClass
    ELSE r.provider

\* v is an instance the provider p gives: the value itself, an object the
\* class constructed, or what the factory handed back.
DerivedFrom(v, p) ==
    IF p.useClass # Undefined THEN v.t = "object" /\ v.src = p.useClass.name
    ELSE IF p.useValue # Undefined \/ p.useFactory = Undefined THEN v = p.useValue
    ELSE IF isInjector(p.useFactory) THEN TRUE
    ELSE v = Undefined \/ (v.t = "object" /\ v.src = p.useFactory.name)

\* Outcomes of a constructor or factory that returns.
Returning == Outcomes \ {"throw"}

\* C1: once register(T, P) has returned without throwing, and until the
\* next reset, every register(T, P2) fails with the duplicate-registration
\* error and leaves the registry as it is, and what inject(T) has returned
\* is derived from P.
C1_DuplicateRejected ==
    \A i \in TokenIds :
        firstReg[Sym(i)] # Undefined =>
            /\ \A p2 \in Providers :
                   register(registry, tokens[i], p2) =
                       [registry |-> registry, error |-> "AlreadyRegistered"]
            /\ \A v \in rets[Sym(i)] : DerivedFrom(v, firstReg[Sym(i)])

\* C2: for a token bound to a factory provider, once an inject(T) has
\* returned, whatever the value, no later inject(T) before the next reset
\* runs the factory again, and each returns that same value.
C2_FactoryOnce ==
    \A i \in TokenIds :
        FactoryBound(i) /\ rets[Sym(i)] # {} =>
            \A out \in Returning :
                LET r == inject(registry, nextId, tokens[i], out)
                IN  ~r.ran /\ r.error = "none" /\ rets[Sym(i)] = {r.value}

\* C3 as stated: for a token bound to a class provider the constructor
\* runs at most once between two resets, exactly once as soon as an
\* inject(T) has returned, and every inject(T) returns the same instance.
C3_CtorRunsOnce ==
    \A i \in TokenIds :
        ClassBound(i) =>
            /\ runs[Sym(i)] <= 1
            /\ rets[Sym(i)] # {} =>
                   /\ runs[Sym(i)] = 1
                   /\ \A out \in Outcomes :
                          rets[Sym(i)] = {inject(registry, nextId, tokens[i], out).value}

\* C3 amended: for a token bound to a class provider, every inject(T) runs
\* the constructor until one run returns; from then on, and until the next
\* reset, no inject(T) runs the constructor and each returns the instance
\* the first returning run constructed.
C3_CtorCompletesOnce ==
    \A i \in TokenIds :
        ClassBound(i) =>
            \A out \in Outcomes :
                LET r == inject(registry, nextId, tokens[i], out)
                IN  IF rets[Sym(i)] = {}
                    THEN r.ran /\ (out # "throw" => r.error = "none")
                    ELSE /\ runs[Sym(i)] >= 1
                         /\ ~r.ran /\ r.error = "none" /\ rets[Sym(i)] = {r.value}
                         /\ DerivedFrom(r.value, Binding(Registration(i)))

\* A class-bound token whose constructor threw once and then returned, and
\* whose last inject returned.
C3_Witness ==
    \E i \in TokenIds :
        /\ ClassBound(i) /\ runs[Sym(i)] = 2 /\ rets[Sym(i)] # {}
        /\ last = Call("inject", i, "none", FALSE)

\* C4: for a token registered with a value provider {useValue: V}, every
\* inject(T) before the next reset returns V itself.
C4_ValueReturned ==
    \A i \in TokenIds :
        LET P == firstReg[Sym(i)]
        IN  (P # Undefined /\ P.useClass = Undefined /\ P.useFactory = Undefined) =>
                /\ rets[Sym(i)] \subseteq {P.useValue}
                /\ \A out \in Returning :
                       LET r == inject(registry, nextId, tokens[i], out)
                       IN  r.error = "none" /\ r.value = P.useValue

\* C5: an inject(T) on a token without a binding fails with the
\* unresolved-token error when T has no default provider, and when T has
\* one it registers it, does not fail with unresolved-token and returns an
\* instance derived from the default provider.
C5_UnboundInject ==
    last.op = "inject" =>
        LET i == last.token
            d == tokens[i].defaultProvider
        IN  /\ (d = Undefined /\ ~Bound(i)) => last.error = "UnregisteredToken"
            /\ last.auto =>
                   /\ last.error \in {"none", "Thrown"}
                   /\ last.error = "none" => \A v \in rets[Sym(i)] : DerivedFrom(v, d)

\* C6: right after reset() every token is unbound: register(T, P) raises
\* no duplicate-registration error, and inject(T) fails with
\* unresolved-token when T has no default provider and registers the
\* default provider again when it has one.
C6_ResetUnbinds ==
    last.op = "reset" =>
        \A i \in TokenIds :
            /\ ~Bound(i)
            /\ \A p \in Providers : register(registry, tokens[i], p).error = "none"
            /\ \A out \in Outcomes :
                   LET r == inject(registry, nextId, tokens[i], out)
                   IN  IF tokens[i].defaultProvider = Undefined
                       THEN r.error = "UnregisteredToken" /\ r.registry = registry
                       ELSE r.auto /\ r.error # "AlreadyRegistered"

\* A reset made after an instance was constructed and cached.
C6_Witness == last.op = "reset" /\ nextId > 1

\* C7: a register(T, P) that returns without throwing leaves exactly one
\* binding for T, to P, and the binding stays until the next reset.
C7_RegisterBinds ==
    /\ (last.op = "register" /\ last.error = "none") =>
           Len(registry[Sym(last.token)]) = 1
    /\ \A i \in TokenIds :
           firstReg[Sym(i)] # Undefined =>
               /\ Len(registry[Sym(i)]) = 1
               /\ Binding(Registration(i)) = firstReg[Sym(i)]

\* C8: in every reachable state the registry holds at most one binding
\* per token.
C8_AtMostOneBinding == \A s \in Symbols : Len(registry[s]) <= 1

\* A register refused on a token that inject bound to its default provider.
C8_Witness ==
    /\ last.op = "register" /\ last.error = "AlreadyRegistered"
    /\ firstReg[Sym(last.token)] = tokens[last.token].defaultProvider
    /\ Len(registry[Sym(last.token)]) = 1

\* C9 as stated: for a token bound to a factory provider every inject(T)
\* runs the factory.
C9_FactoryEveryInject ==
    \A i \in TokenIds :
        FactoryBound(i) =>
            \A out \in Outcomes : inject(registry, nextId, tokens[i], out).ran

\* C9 amended: for a token bound to a factory provider, inject(T) runs the
\* factory only as long as no inject(T) since the registration got a value
\* other than undefined or null from it; from then on every inject(T)
\* returns that cached instance without running the factory.
C9_FactoryCached ==
    \A i \in TokenIds :
        FactoryBound(i) =>
            \A out \in Outcomes :
                LET r == inject(registry, nextId, tokens[i], out)
                    cached == rets[Sym(i)] \ {Undefined, Null}
                IN  IF cached = {}
                    THEN r.ran
                    ELSE ~r.ran /\ r.error = "none" /\ cached = {r.value}

\* A factory-bound token whose factory ran and whose instance is cached,
\* after an inject that returned.
C9_Witness ==
    \E i \in TokenIds :
        /\ FactoryBound(i) /\ runs[Sym(i)] >= 1
        /\ rets[Sym(i)] \ {Undefined, Null} # {}
        /\ last = Call("inject", i, "none", FALSE)

\* C10: after an inject(T) that failed with unresolved-token, on a token
\* without default provider, the token is unbound; register(T, P) then succeeds for every provider P, and the
\* inject(T) after it returns an instance derived from P.
C10_FailedInjectLeavesUnbound ==
    (last.op = "inject" /\ last.error = "UnregisteredToken"
         /\ tokens[last.token].defaultProvider = Undefined) =>
        LET i == last.token
        IN  /\ ~Bound(i)
            /\ \A p \in Providers :
                   LET g == register(registry, tokens[i], p)
                   IN  /\ g.error = "none"
                       /\ \A out \in Returning :
                              LET r == inject(g.registry, nextId, tokens[i], out)
                              IN  r.error = "none" /\ DerivedFrom(r.value, p)

\* C11: two tokens made by separate createInjectionToken calls with the
\* same name are distinct registry keys: register on one leaves the other
\* as it was, register on the other is then no duplicate, and inject on a
\* token gives an instance of its own binding or its own default provider,
\* and fails with unresolved-token when it has neither.
C11_DistinctTokens ==
    \A i \in TokenIds : \A j \in TokenIds \ {i} :
        /\ Sym(i) # Sym(j)
        /\ \A p \in Providers :
               LET r == register(registry, tokens[i], p)
               IN  /\ r.registry[Sym(j)] = registry[Sym(j)]
                   /\ ~Bound(j) =>
                          \A p2 \in Providers :
                              register(r.registry, tokens[j], p2).error = "none"
        /\ \A out \in Outcomes :
               LET r == inject(registry, nextId, tokens[j], out)
               IN  /\ ~Bound(j) /\ tokens[j].defaultProvider = Undefined
                          => r.error = "UnregisteredToken"
                   /\ r.error = "none" =>
                          DerivedFrom(r.value,
                                      IF Bound(j) THEN Binding(Registration(j))
                                      ELSE tokens[j].defaultProvider)

\* Two tokens of the same name, one bound, the other not: inject on the
\* other has just failed with unresolved-token.
C11_Witness ==
    /\ Sym(1).description = Sym(2).description
    /\ Bound(1) /\ ~Bound(2)
    /\ last.op = "inject" /\ last.token = 2 /\ last.error = "UnregisteredToken"

\* Token j is bound to the factory () => inject(tokens[i]).
InjectorBound(j, i) ==
    FactoryBound(j) /\ Binding(Registration(j)) = FactoryProvider(Injector(i))

\* The call inject(tokens[k]) with the result r ran the constructor of
\* token 1's class, itself or in the factory it ran.
CtorRan(k, r) ==
    IF k = 1 THEN r.ran ELSE \E c \in r.nested : c.symbol = Sym(1) /\ c.ran

\* C12 as stated: with token 1 bound to a class and token 2 bound to the
\* factory () => inject(token 1), the constructor runs at most once between
\* two resets, exactly once as soon as an inject of either token has
\* returned, and every inject of either token returns the same instance.
C12_SharedInstanceCtorOnce ==
    ClassBound(1) /\ InjectorBound(2, 1) =>
        LET all == rets[Sym(1)] \cup rets[Sym(2)]
        IN  /\ runs[Sym(1)] <= 1
            /\ all # {} =>
                   /\ runs[Sym(1)] = 1
                   /\ \A k \in TokenIds : \A out \in Outcomes :
                          all = {inject(registry, nextId, tokens[k], out).value}

\* C12 amended: with token 1 bound to a class and token 2 bound to the
\* factory () => inject(token 1), every inject of either token runs the
\* constructor until one run returns; from then on, and until the next
\* reset, no inject of either token runs the constructor and each returns
\* the instance that run constructed.
C12_SharedInstanceCtorCompletesOnce ==
    ClassBound(1) /\ InjectorBound(2, 1) =>
        LET all == rets[Sym(1)] \cup rets[Sym(2)]
        IN  \A k \in TokenIds : \A out \in Outcomes :
                LET r == inject(registry, nextId, tokens[k], out)
                IN  IF all = {}
                    THEN /\ CtorRan(k, r)
                         /\ out # "throw" =>
                                /\ r.error = "none"
                                /\ DerivedFrom(r.value, Binding(Registration(1)))
                    ELSE /\ runs[Sym(1)] >= 1
                         /\ ~CtorRan(k, r) /\ r.error = "none" /\ all = {r.value}
                         /\ DerivedFrom(r.value, Binding(Registration(1)))

\* Both tokens have returned an instance, the injecting one last, after a
\* constructor run that threw.
C12_Witness ==
    /\ ClassBound(1) /\ InjectorBound(2, 1)
    /\ rets[Sym(1)] # {} /\ rets[Sym(2)] # {} /\ runs[Sym(1)] = 2
    /\ last = Call("inject", 2, "none", FALSE)

\* C13: inject(T) on an unbound token with a default provider leaves the
\* registry register(T, T.defaultProvider) leaves, but for the instance it
\* caches: T is bound, every register(T, P) then fails with the
\* duplicate-registration error, and a later inject(T) registers nothing
\* and returns the same instance, one the default provider gives.
C13_AutoRegistration ==
    \A i \in TokenIds :
        (~Bound(i) /\ tokens[i].defaultProvider # Undefined) =>
            \A out \in Outcomes :
                LET r == inject(registry, nextId, tokens[i], out)
                IN  /\ r.auto
                    /\ isRegistered(r.registry, Sym(i))
                    /\ r.error # "none" =>
                           r.registry =
                               register(registry, tokens[i], tokens[i].defaultProvider).registry
                    /\ \A p \in Providers :
                           register(r.registry, tokens[i], p).error = "AlreadyRegistered"
                    /\ \A out2 \in Outcomes :
                           LET r2 == inject(r.registry, r.nextId, tokens[i], out2)
                           IN  /\ ~r2.auto
                               /\ (r.error = "none" /\ r2.error = "none") =>
                                      /\ r2.value = r.value
                                      /\ DerivedFrom(r.value, tokens[i].defaultProvider)

\* The instances handed out since the last reset.
Handed == UNION { rets[s] : s \in Symbols }

\* inject(tokens[i]) with the result r ran the constructor or factory of
\* the binding and, when that returned an object, returned this new object
\* and none handed out before; a constructor that does not throw returns one.
RanAfresh(i, r, out) ==
    /\ r.ran
    /\ (r.error = "none" /\ r.value.t = "object") =>
           r.value.id >= nextId /\ r.value \notin Handed
    /\ (out # "throw" /\ isConstructor(Binding(Registration(i)).useClass)) =>
           r.error = "none" /\ r.value.t = "object"

\* C14: for a token bound to a class or a factory and already resolved,
\* after reset() and the registration of the same provider again, by
\* register or, when it is the token's default provider, by inject itself,
\* the first inject(T) runs the constructor or factory again and does not
\* return the instance cached before the reset.
C14_ResetDiscardsInstances ==
    \A i \in TokenIds :
        ((ClassBound(i) \/ FactoryBound(i)) /\ rets[Sym(i)] # {}) =>
            LET P == Binding(Registration(i))
                cleared == reset(registry)
                again == register(cleared, tokens[i], P)
            IN  /\ again.error = "none"
                /\ \A out \in Outcomes :
                       /\ RanAfresh(i, inject(again.registry, nextId, tokens[i], out), out)
                       /\ P = tokens[i].defaultProvider =>
                              LET r == inject(cleared, nextId, tokens[i], out)
                              IN  r.auto /\ RanAfresh(i, r, out)

\* A class-bound token has returned the second object ever constructed
\* from the only run since the last reset: the first object was cached
\* before that reset.
C14_Witness ==
    \E i \in TokenIds :
        /\ ClassBound(i) /\ runs[Sym(i)] = 1
        /\ \A j \in TokenIds \ {i} : runs[Sym(j)] = 0 /\ ~Bound(j)
        /\ rets[Sym(i)] = {Object(Binding(Registration(i)).useClass.name, 2)}
        /\ last = Call("inject", i, "none", FALSE)

\* C15: register(T, P) with a class or a factory runs neither: the first
\* inject(T) after it runs the constructor or the factory, and as long as
\* no inject(T) has run it the token has handed out no instance.
C15_LazyResolution ==
    \A i \in TokenIds :
        /\ \A p \in Providers :
               (~Bound(i) /\ (isClassProvider(p) \/ isFactoryProvider(p))) =>
                   LET g == register(registry, tokens[i], p)
                   IN  /\ g.error = "none"
                       /\ \A out \in Outcomes :
                              inject(g.registry, nextId, tokens[i], out).ran
        /\ ((ClassBound(i) \/ FactoryBound(i)) /\ runs[Sym(i)] = 0) =>
               /\ rets[Sym(i)] = {}
               /\ \A out \in Outcomes : inject(registry, nextId, tokens[i], out).ran

\* A factory has just been registered, after other objects were
\* constructed, and has not run.
C15_Witness ==
    \E i \in TokenIds :
        /\ FactoryBound(i) /\ runs[Sym(i)] = 0 /\ nextId > 1
        /\ last = Call("register", i, "none", FALSE)

\* C16: when register(T, P) returns without throwing on an unbound token
\* that has a default provider, the inject(T) calls that follow do not
\* register the default provider, and what they return is an instance P
\* gives.
C16_ExplicitBeforeDefault ==
    \A i \in TokenIds : \A p \in Providers :
        (~Bound(i) /\ tokens[i].defaultProvider # Undefined) =>
            LET g == register(registry, tokens[i], p)
            IN  g.error = "none" =>
                    \A out \in Outcomes :
                        LET r == inject(g.registry, nextId, tokens[i], out)
                        IN  /\ ~r.auto
                            /\ r.error = "none" => DerivedFrom(r.value, p)

\* The constructor or factory inject(tokens[i]) may run calls none of
\* register, inject and reset.
PlainProvider(i) ==
    IF Bound(i)
    THEN ~(FactoryBound(i) /\ isInjector(Binding(Registration(i)).useFactory))
    ELSE tokens[i].defaultProvider = Undefined
         \/ tokens[i].defaultProvider.useFactory = Undefined
         \/ ~isInjector(tokens[i].defaultProvider.useFactory)

\* C17: register(T, P) and inject(T), failing or not, leave the
\* registrations of every other token, and with them its bound state, its
\* binding and its cached instance, as they were, when the constructor or
\* factory that runs calls none of register, inject and reset.
C17_OtherTokensUnchanged ==
    \A i \in TokenIds : \A j \in TokenIds \ {i} :
        /\ \A p \in Providers :
               register(registry, tokens[i], p).registry[Sym(j)] = registry[Sym(j)]
        /\ PlainProvider(i) =>
               \A out \in Outcomes :
                   LET r == inject(registry, nextId, tokens[i], out)
                   IN  r.registry[Sym(j)] = registry[Sym(j)] /\ r.nested = {}

\* Both tokens are bound, the second has a cached instance, and an
\* inject of the first has just thrown.
C17_Witness ==
    /\ Bound(1) /\ Bound(2) /\ PlainProvider(1)
    /\ ClassBound(2) /\ rets[Sym(2)] # {}
    /\ last = Call("inject", 1, "Thrown", FALSE)

\* C18: when the constructor or factory of T's binding throws in an
\* inject(T) made while no instance is cached, inject throws, the
\* registrations of T stay as they were (T is bound, nothing is cached),
\* every register(T, P2) fails with the duplicate-registration error, and
\* the next inject(T) runs the constructor or factory again.
C18_ThrowKeepsBinding ==
    \A i \in TokenIds :
        ((ClassBound(i) \/ FactoryBound(i)) /\ rets[Sym(i)] \ {Undefined, Null} = {}) =>
            LET r == inject(registry, nextId, tokens[i], "throw")
            IN  /\ r.ran
                /\ PlainProvider(i) => r.error = "Thrown"
                /\ r.error # "none" =>
                       /\ r.registry[Sym(i)] = registry[Sym(i)]
                       /\ isRegistered(r.registry, Sym(i))
                       /\ \A p \in Providers :
                              register(r.registry, tokens[i], p).error = "AlreadyRegistered"
                       /\ \A out \in Outcomes :
                              inject(r.registry, r.nextId, tokens[i], out).ran

\* The constructor of a class-bound token has thrown in two injects in a
\* row.
C18_Witness ==
    \E i \in TokenIds :
        /\ ClassBound(i) /\ rets[Sym(i)] = {} /\ runs[Sym(i)] = 2
        /\ last = Call("inject", i, "Thrown", FALSE)

\* C19: reset() can be called in every state and never fails; after it
\* every token is unbound, and a second reset() right after it leaves the
\* registry the first one left.
C19_ResetIdempotent ==
    LET once == reset(registry)
    IN  /\ ENABLED Reset
        /\ \A s \in Symbols : ~isRegistered(once, s)
        /\ reset(once) = once

\* A reset of a container nothing was constructed in, leaving it empty.
C19_Witness ==
    /\ last.op = "reset" /\ nextId = 1
    /\ \A i \in TokenIds : ~Bound(i)

====
